---- MODULE Spec2Model ----
(***************************************************************************)
(* Model of scripts/add-restaurant.mjs: the interactive tool that appends  *)
(* one restaurant record to src/data/restaurants.json.                     *)
(*                                                                         *)
(* Text is modelled as a sequence of characters; a character is a one-     *)
(* element string, and a non-ASCII character is written as its code point  *)
(* ("U+00E9" is e-acute, "U+0301" the combining acute accent, "U+2019" the *)
(* right single quotation mark, "U+210B" the script capital H).            *)
(***************************************************************************)
EXTENDS Integers, Sequences, FiniteSets, TLC

(***************************************************************************)
(* Bounds of the model.                                                    *)
(***************************************************************************)
MaxLen == 3      \* longest text given to slugify in SpecSlug
MaxTable == 2    \* longest area table given to extractAreaKeys in SpecAreas
MaxNow == 1      \* Date.now() ranges over 0..MaxNow (modulo 10^5)

Procs == {1, 2}  \* at most two runs of the tool against the same files

(***************************************************************************)
(* Characters.                                                             *)
(***************************************************************************)
DigitChars == <<"0", "1", "2", "3", "4", "5", "6", "7", "8", "9">>

LowerLetters ==
  {"a", "b", "c", "d", "e", "f", "g", "h", "i", "j", "k", "l", "m",
   "n", "o", "p", "q", "r", "s", "t", "u", "v", "w", "x", "y", "z"}

\* the class [a-z0-9] of the regular expression at line 20
SlugChars == LowerLetters \cup {DigitChars[i] : i \in 1..10}

\* the characters String.prototype.trim removes (those the model uses)
WhiteSpace == {" "}

\* String.prototype.toLowerCase on one character
LowerOf(c) ==
  CASE c = "A" -> "a"
    [] c = "B" -> "b"
    [] c = "E" -> "e"
    [] c = "H" -> "h"
    [] c = "N" -> "n"
    [] c = "S" -> "s"
    [] c = "Y" -> "y"
    [] c = "U+00C9" -> "U+00E9"
    [] OTHER -> c

\* the NFKD decomposition of one character
Decompose(c) ==
  CASE c = "U+00E9" -> <<"e", "U+0301">>
    [] c = "U+00C9" -> <<"E", "U+0301">>
    [] c = "U+210B" -> <<"H">>
    [] OTHER -> <<c>>

(***************************************************************************)
(* String primitives.                                                      *)
(***************************************************************************)
RECURSIVE TrimStart(_)
TrimStart(s) ==
  IF s = <<>> THEN s
  ELSE IF Head(s) \in WhiteSpace THEN TrimStart(Tail(s)) ELSE s

RECURSIVE TrimEnd(_)
TrimEnd(s) ==
  IF s = <<>> THEN s
  ELSE IF s[Len(s)] \in WhiteSpace THEN TrimEnd(SubSeq(s, 1, Len(s) - 1)) ELSE s

Trim(s) == TrimEnd(TrimStart(s))

ToLowerCase(s) == [i \in 1..Len(s) |-> LowerOf(s[i])]

RECURSIVE NFKD(_)
NFKD(s) == IF s = <<>> THEN <<>> ELSE Decompose(Head(s)) \o NFKD(Tail(s))

\* .replace(/['’]/g, "")
StripApostrophes(s) == SelectSeq(s, LAMBDA c : c \notin {"'", "U+2019"})

\* .replace(/&/g, " and ")
RECURSIVE ReplaceAmp(_)
ReplaceAmp(s) ==
  IF s = <<>> THEN <<>>
  ELSE (IF Head(s) = "&" THEN <<" ", "a", "n", "d", " ">> ELSE <<Head(s)>>)
       \o ReplaceAmp(Tail(s))

\* .replace(/[^a-z0-9]+/g, "-"): inRun says the previous character was
\* part of the run being replaced
RECURSIVE DashRuns(_, _)
DashRuns(s, inRun) ==
  IF s = <<>> THEN <<>>
  ELSE IF Head(s) \in SlugChars THEN <<Head(s)>> \o DashRuns(Tail(s), FALSE)
  ELSE IF inRun THEN DashRuns(Tail(s), TRUE)
  ELSE <<"-">> \o DashRuns(Tail(s), TRUE)

\* .replace(/[^a-z0-9]/g, "-"), the same replacement without the quantifier
DashEach(s) == [i \in 1..Len(s) |-> IF s[i] \in SlugChars THEN s[i] ELSE "-"]

RECURSIVE StripLeadingHyphens(_)
StripLeadingHyphens(s) ==
  IF s = <<>> THEN s
  ELSE IF Head(s) = "-" THEN StripLeadingHyphens(Tail(s)) ELSE s

RECURSIVE StripTrailingHyphens(_)
StripTrailingHyphens(s) ==
  IF s = <<>> THEN s
  ELSE IF s[Len(s)] = "-" THEN StripTrailingHyphens(SubSeq(s, 1, Len(s) - 1))
  ELSE s

\* .replace(/^-+|-+$/g, "")
TrimHyphens(s) == StripTrailingHyphens(StripLeadingHyphens(s))

\* .replace(/^-|-$/g, ""), the same replacement without the quantifiers
TrimOneHyphen(s) ==
  LET a == IF s # <<>> /\ Head(s) = "-" THEN Tail(s) ELSE s
  IN IF a # <<>> /\ a[Len(a)] = "-" THEN SubSeq(a, 1, Len(a) - 1) ELSE a

\* .replace(/-+/g, "-")
RECURSIVE CollapseHyphens(_)
CollapseHyphens(s) ==
  IF Len(s) < 2 THEN s
  ELSE IF s[1] = "-" /\ s[2] = "-" THEN CollapseHyphens(Tail(s))
  ELSE <<s[1]>> \o CollapseHyphens(Tail(s))

\* slugify with the quantifiers of lines 20 and 21 left out
slugifyNoQuantifier(str) ==
  CollapseHyphens(TrimOneHyphen(DashEach(ReplaceAmp(StripApostrophes(
    NFKD(ToLowerCase(Trim(str))))))))

\* slugify, lines 13-23
slugify(str) ==
  CollapseHyphens(TrimHyphens(DashRuns(ReplaceAmp(StripApostrophes(
    NFKD(ToLowerCase(Trim(str))))), FALSE)))

\* String.prototype.split(",")
RECURSIVE SplitComma(_, _)
SplitComma(s, cur) ==
  IF s = <<>> THEN <<cur>>
  ELSE IF Head(s) = "," THEN <<cur>> \o SplitComma(Tail(s), <<>>)
  ELSE SplitComma(Tail(s), Append(cur, Head(s)))

\* parseList without the .filter(Boolean) of line 39
parseListNoFilter(inputStr) ==
  LET parts == SplitComma(inputStr, <<>>)
  IN [i \in 1..Len(parts) |-> Trim(parts[i])]

\* parseList, lines 35-40
parseList(inputStr) ==
  LET parts == SplitComma(inputStr, <<>>)
      trimmed == [i \in 1..Len(parts) |-> Trim(parts[i])]
  IN SelectSeq(trimmed, LAMBDA t : t # <<>>)

\* yesNoToBool, lines 73-79
yesNoToBool(s, defaultVal) ==
  LET v == ToLowerCase(Trim(s))
  IN IF v = <<>> THEN defaultVal
     ELSE IF v \in {<<"y">>, <<"y", "e", "s">>, <<"t", "r", "u", "e">>, <<"1">>}
       THEN TRUE
     ELSE IF v \in {<<"n">>, <<"n", "o">>, <<"f", "a", "l", "s", "e">>, <<"0">>}
       THEN FALSE
     ELSE defaultVal

\* n as decimal digits, most significant first
RECURSIVE ToDigits(_)
ToDigits(n) ==
  IF n < 10 THEN <<DigitChars[n + 1]>>
  ELSE Append(ToDigits(n \div 10), DigitChars[(n % 10) + 1])

\* Date.now().toString().slice(-5) at line 105: the timestamp has 13
\* digits, so these are the five decimal digits of now modulo 10^5
TimeSuffix(t) ==
  LET d == ToDigits(t % 100000)
  IN [i \in 1..(5 - Len(d)) |-> "0"] \o d

(***************************************************************************)
(* JavaScript values read from the reference tables.  A value is undefined,*)
(* null or a string; an entry of a table is null, a string or an object    *)
(* with the properties key, id, slug and name (undefined when missing).    *)
(***************************************************************************)
JsUndef == [t |-> "undef", s |-> <<>>]
JsNull == [t |-> "null", s |-> <<>>]
JsStr(x) == [t |-> "str", s |-> x]

\* Boolean(v) for these values
Truthy(v) == v.t = "str" /\ v.s # <<>>

\* a ?? b
Coalesce(a, b) == IF a.t \in {"undef", "null"} THEN b ELSE a

JsObj(k, i, sl, n) ==
  [t |-> "obj", s |-> <<>>, key |-> k, id |-> i, slug |-> sl, name |-> n]
JsStrEntry(x) ==
  [t |-> "str", s |-> x, key |-> JsUndef, id |-> JsUndef, slug |-> JsUndef,
   name |-> JsUndef]
JsNullEntry ==
  [t |-> "null", s |-> <<>>, key |-> JsUndef, id |-> JsUndef, slug |-> JsUndef,
   name |-> JsUndef]

\* a?.f : a property of a string primitive or of null is undefined
Prop(a, f) == IF a.t = "obj" THEN a[f] ELSE JsUndef

\* a parsed JSON document: an array of entries, or something else
JsArray(items) == [t |-> "arr", items |-> items]
JsNotArray == [t |-> "obj", items |-> <<>>]

\* extractAreaKeys reading the entry itself when it is a string
extractAreaKeysWithStrings(areasJson) ==
  IF areasJson.t # "arr" THEN <<>>
  ELSE LET m == [i \in 1..Len(areasJson.items) |->
                  IF areasJson.items[i].t = "str"
                  THEN JsStr(areasJson.items[i].s)
                  ELSE Coalesce(Prop(areasJson.items[i], "key"),
                         Coalesce(Prop(areasJson.items[i], "id"),
                           Coalesce(Prop(areasJson.items[i], "slug"), JsNull)))]
       IN SelectSeq(m, Truthy)

\* extractAreaKeys, lines 42-48
extractAreaKeys(areasJson) ==
  IF areasJson.t # "arr" THEN <<>>
  ELSE LET m == [i \in 1..Len(areasJson.items) |->
                  Coalesce(Prop(areasJson.items[i], "key"),
                    Coalesce(Prop(areasJson.items[i], "id"),
                      Coalesce(Prop(areasJson.items[i], "slug"), JsNull)))]
       IN SelectSeq(m, Truthy)

\* extractCuisineNames, lines 50-57
extractCuisineNames(cuisinesJson) ==
  IF cuisinesJson.t = "arr"
  THEN IF Len(cuisinesJson.items) > 0 /\ cuisinesJson.items[1].t = "str"
       THEN cuisinesJson.items
       ELSE LET m == [i \in 1..Len(cuisinesJson.items) |->
                       Coalesce(Prop(cuisinesJson.items[i], "name"),
                         Coalesce(Prop(cuisinesJson.items[i], "key"),
                           Coalesce(Prop(cuisinesJson.items[i], "id"), JsNull)))]
            IN SelectSeq(m, Truthy)
  ELSE <<>>

(***************************************************************************)
(* Files.  A file is absent, holds text that is not JSON, or holds the     *)
(* serialization of a document; fmt tells apart the layout writeJson       *)
(* produces (2-space indentation, trailing newline) from any other one.    *)
(***************************************************************************)
AbsentFile == [kind |-> "absent", fmt |-> "none", val |-> JsNotArray]
GarbageFile == [kind |-> "garbage", fmt |-> "none", val |-> JsNotArray]
JsonFile(fmt, doc) == [kind |-> "json", fmt |-> fmt, val |-> doc]

\* readJson, lines 25-28: fs.readFile rejects for a missing file and
\* JSON.parse throws for text that is not JSON
readJsonThrows(file) == file.kind # "json"
readJson(file) == file.val

\* writeJson, lines 30-33
writeJson(data) == JsonFile("pretty2nl", data)

(***************************************************************************)
(* Restaurant records.  An item of the store is null or an object; a slug  *)
(* that is missing and a slug that is the empty string are both <<>>       *)
(* (line 103 drops both).                                                  *)
(***************************************************************************)
NoFields ==
  [name |-> <<>>, slug |-> <<>>, areaKey |-> <<>>, address |-> <<>>,
   price |-> <<>>, cuisines |-> <<>>, vibes |-> <<>>, goodFor |-> <<>>,
   shortBlurb |-> <<>>, longBlurb |-> <<>>, mustTry |-> <<>>,
   website |-> <<>>, menuUrl |-> <<>>, photos |-> <<>>, featured |-> FALSE]

NullItem == [t |-> "null", f |-> NoFields]
Item(fields) == [t |-> "obj", f |-> fields]

\* "/images/restaurants/${slug}/1.jpg", line 143
firstPhotoRel(slug) ==
  <<"/", "images", "/", "restaurants", "/">> \o slug \o <<"/", "1.jpg">>

\* a record as an earlier run of the tool wrote it
Stored(name, slug) ==
  Item([NoFields EXCEPT !.name = name, !.slug = slug,
          !.areaKey = <<"f", "i">>, !.price = <<"$", "$">>,
          !.cuisines = <<<<"B">>>>, !.photos = <<firstPhotoRel(slug)>>])

\* r?.slug
SlugOf(r) == IF r.t = "obj" THEN r.f.slug ELSE <<>>

\* new Set(restaurants.map(r => r?.slug).filter(Boolean)), line 103
ExistingSlugs(restaurants) ==
  {SlugOf(restaurants[i]) : i \in 1..Len(restaurants)} \ {<<>>}

\* the entry of lines 158-174
Entry(m) ==
  Item([name |-> m.name, slug |-> m.slug, areaKey |-> m.areaKey,
        address |-> m.address, price |-> m.price, cuisines |-> m.cuisines,
        vibes |-> m.vibes, goodFor |-> m.goodFor, shortBlurb |-> m.shortBlurb,
        longBlurb |-> m.longBlurb, mustTry |-> m.mustTry, website |-> m.website,
        menuUrl |-> m.menuUrl, photos |-> <<firstPhotoRel(m.slug)>>,
        featured |-> m.featured])

\* the tier symbols the price prompt of line 119 names
PriceTiers == {<<"$">>, <<"$", "$">>, <<"$", "$", "$">>}

(***************************************************************************)
(* State.                                                                  *)
(***************************************************************************)
VARIABLES
  storeFile,     \* src/data/restaurants.json
  areasFile,     \* src/data/areas.json
  cuisinesFile,  \* src/data/cuisines.json
  placeholder,   \* whether public/images/placeholder.jpg exists
  dirs,          \* slugs s for which public/images/restaurants/s exists
  photoFiles,    \* slugs s for which public/images/restaurants/s/1.jpg exists
  now,           \* Date.now() modulo 10^5
  pc,            \* where each run of main is
  stdin,         \* the lines the operator of each run has still to type
  mem,           \* the local constants and variables of each run of main
  exitCode,      \* exit status of each run, -1 while it has none
  err,           \* the message each run wrote to the error stream
  file0,         \* the store file before any run started
  txt,           \* SpecSlug: the text given to slugify
  once,          \* SpecSlug: slugify(txt)
  twice,         \* SpecSlug: slugify(slugify(txt))
  table,         \* SpecAreas: the parsed area table
  keys,          \* SpecAreas: extractAreaKeys(table)
  hpc            \* SpecSlug, SpecAreas: which applications have been made

fsVars == <<storeFile, areasFile, cuisinesFile, placeholder, dirs, photoFiles>>
runVars == <<now, pc, stdin, mem, exitCode, err, file0>>
fnVars == <<txt, once, twice, table, keys, hpc>>
vars == <<fsVars, runVars, fnVars>>

InitMem ==
  [restaurants |-> <<>>, areaKeys |-> <<>>, cuisineNames |-> <<>>,
   name |-> <<>>, slug |-> <<>>, areaKey |-> <<>>, address |-> <<>>,
   price |-> <<>>, cuisines |-> <<>>, vibes |-> <<>>, goodFor |-> <<>>,
   shortBlurb |-> <<>>, longBlurb |-> <<>>, mustTry |-> <<>>,
   website |-> <<>>, menuUrl |-> <<>>, featured |-> FALSE,
   console |-> {},   \* the notices written to the console
   loaded |-> <<>>]  \* the store as line 85 read it (restaurants before the push)

(***************************************************************************)
(* The files and the operator's answers the runs are checked with.         *)
(***************************************************************************)
TwoRecords ==
  JsonFile("other",
    JsArray(<<Stored(<<"A">>, <<"a">>), NullItem,
              Stored(<<"A">>, <<"a", "-", "0", "0", "0", "0", "1">>)>>))

StoreFiles ==
  {GarbageFile, JsonFile("other", JsNotArray),
   JsonFile("pretty2nl", JsArray(<<>>)), TwoRecords}

ObjectAreas ==
  JsonFile("other",
    JsArray(<<JsObj(JsStr(<<"f", "i">>), JsUndef, JsUndef, JsStr(<<"F">>))>>))

AreaFiles ==
  {AbsentFile, JsonFile("other", JsNotArray), ObjectAreas,
   JsonFile("other", JsArray(<<JsStrEntry(<<"f", "i">>)>>))}

StringCuisines == JsonFile("other", JsArray(<<JsStrEntry(<<"B">>)>>))

CuisineFiles ==
  {AbsentFile, StringCuisines,
   JsonFile("other",
     JsArray(<<JsObj(JsUndef, JsUndef, JsUndef, JsStr(<<"B">>))>>))}

NameAnswers == {<<" ">>, <<"A">>, <<"'">>}
SlugAnswers == {<<>>, <<"B", " ">>}
AreaKeyAnswers == {<<" ">>, <<" ", "f", "i">>}
PriceAnswers == {<<>>, <<"$">>, <<"c">>}
CuisineAnswers == {<<" ", ",", " ">>, <<"B", ",", " ", "S">>}

\* the fourteen answers of one run, in the order of the prompts
Script(n, sl, a, pr, c) ==
  <<n, sl, a, <<"D", "E", " ">>, pr, c, <<"c">>, <<>>, <<"x">>, <<>>,
    <<"r", ",", ",", "b">>, <<>>, <<"u">>, <<"Y", "E", "S">>>>

Scripts ==
  {Script(n, sl, a, pr, c) : n \in NameAnswers, sl \in SlugAnswers,
     a \in AreaKeyAnswers, pr \in PriceAnswers, c \in CuisineAnswers}

\* the scripts of two runs that both pass every check
TwoRunScripts ==
  {Script(<<"A">>, sl, <<"f", "i">>, <<>>, <<"B">>) : sl \in SlugAnswers}

IdleFn ==
  /\ txt = <<>> /\ once = <<>> /\ twice = <<>>
  /\ table = JsNotArray /\ keys = <<>> /\ hpc = "idle"

InitFiles ==
  /\ storeFile \in StoreFiles
  /\ areasFile \in AreaFiles
  /\ cuisinesFile \in CuisineFiles
  /\ placeholder \in BOOLEAN
  /\ dirs = (IF storeFile.kind = "json" /\ storeFile.val.t = "arr"
             THEN ExistingSlugs(storeFile.val.items) ELSE {})
  /\ photoFiles = dirs
  /\ file0 = storeFile

\* one run of the tool
Init ==
  /\ InitFiles
  /\ now = 0
  /\ pc = [p \in Procs |-> IF p = 1 THEN "readStore" ELSE "idle"]
  /\ stdin \in [Procs -> Scripts \cup {<<>>}]
  /\ stdin[1] # <<>> /\ stdin[2] = <<>>
  /\ mem = [p \in Procs |-> InitMem]
  /\ exitCode = [p \in Procs |-> -1]
  /\ err = [p \in Procs |-> "none"]
  /\ IdleFn

\* two runs of the tool started against the same files
InitTwo ==
  /\ storeFile = TwoRecords
  /\ areasFile = ObjectAreas
  /\ cuisinesFile = StringCuisines
  /\ placeholder = TRUE
  /\ dirs = ExistingSlugs(storeFile.val.items)
  /\ photoFiles = dirs
  /\ file0 = storeFile
  /\ now = 0
  /\ pc = [p \in Procs |-> "readStore"]
  /\ stdin \in [Procs -> TwoRunScripts]
  /\ mem = [p \in Procs |-> InitMem]
  /\ exitCode = [p \in Procs |-> -1]
  /\ err = [p \in Procs |-> "none"]
  /\ IdleFn

(***************************************************************************)
(* main, lines 81-197: one action for each await and what follows it up to *)
(* the next await.                                                         *)
(***************************************************************************)
Running(p) == pc[p] \notin {"idle", "done", "failed", "killed"}

\* a throw inside main: the finally block closes the prompt and the catch
\* of lines 194-197 writes the message and exits with status 1
Throw(p, msg) ==
  /\ pc' = [pc EXCEPT ![p] = "failed"]
  /\ exitCode' = [exitCode EXCEPT ![p] = 1]
  /\ err' = [err EXCEPT ![p] = msg]

Goto(p, label) ==
  /\ pc' = [pc EXCEPT ![p] = label]
  /\ UNCHANGED <<exitCode, err>>

\* rl.question: the next line the operator types
Answer(p) == Head(stdin[p])
Consume(p) == stdin' = [stdin EXCEPT ![p] = Tail(stdin[p])]

\* lines 85-86
ReadStore(p) ==
  /\ pc[p] = "readStore"
  /\ IF readJsonThrows(storeFile)
     THEN Throw(p, "readJson") /\ UNCHANGED mem
     ELSE IF readJson(storeFile).t # "arr"
     THEN Throw(p, "restaurants.json must be a JSON array.") /\ UNCHANGED mem
     ELSE /\ mem' = [mem EXCEPT ![p].restaurants = readJson(storeFile).items,
                                   ![p].loaded = readJson(storeFile).items]
          /\ Goto(p, "readAreas")
  /\ UNCHANGED <<fsVars, now, stdin, file0, fnVars>>

\* lines 88-89
ReadAreas(p) ==
  /\ pc[p] = "readAreas"
  /\ IF readJsonThrows(areasFile)
     THEN Throw(p, "readJson") /\ UNCHANGED mem
     ELSE /\ mem' = [mem EXCEPT ![p].areaKeys = extractAreaKeys(readJson(areasFile))]
          /\ Goto(p, "readCuisines")
  /\ UNCHANGED <<fsVars, now, stdin, file0, fnVars>>

\* lines 91-94
ReadCuisines(p) ==
  /\ pc[p] = "readCuisines"
  /\ IF readJsonThrows(cuisinesFile)
     THEN Throw(p, "readJson") /\ UNCHANGED mem
     ELSE /\ mem' = [mem EXCEPT
                 ![p].cuisineNames = extractCuisineNames(readJson(cuisinesFile))]
          /\ Goto(p, "askName")
  /\ UNCHANGED <<fsVars, now, stdin, file0, fnVars>>

\* lines 96-97
AskName(p) ==
  /\ pc[p] = "askName"
  /\ Consume(p)
  /\ LET name == Trim(Answer(p))
     IN IF name = <<>>
        THEN Throw(p, "Name is required.") /\ UNCHANGED mem
        ELSE /\ mem' = [mem EXCEPT ![p].name = name]
             /\ Goto(p, "askSlug")
  /\ UNCHANGED <<fsVars, now, file0, fnVars>>

\* lines 102-108
UniqueSlug(candidate, restaurants, t) ==
  IF candidate \in ExistingSlugs(restaurants)
  THEN candidate \o <<"-">> \o TimeSuffix(t)
  ELSE candidate

\* lines 99-111 with the photo folder of line 141 made as soon as the
\* slug is known
AskSlugMkdir(p) ==
  /\ pc[p] = "askSlug"
  /\ Consume(p)
  /\ LET typed == slugify(Answer(p))
         candidate == IF typed # <<>> THEN typed ELSE slugify(mem[p].name)
         slug == UniqueSlug(candidate, mem[p].restaurants, now)
     IN IF candidate = <<>>
        THEN Throw(p, "Could not generate slug.") /\ UNCHANGED <<mem, dirs>>
        ELSE /\ mem' = [mem EXCEPT ![p].slug = slug]
             /\ dirs' = dirs \cup {slug}
             /\ Goto(p, "askAreaKey")
  /\ UNCHANGED <<storeFile, areasFile, cuisinesFile, placeholder, photoFiles,
                 now, file0, fnVars>>

\* lines 99-111
AskSlug(p) ==
  /\ pc[p] = "askSlug"
  /\ Consume(p)
  /\ LET typed == slugify(Answer(p))
         candidate == IF typed # <<>> THEN typed ELSE slugify(mem[p].name)
         slug == UniqueSlug(candidate, mem[p].restaurants, now)
     IN IF candidate = <<>>
        THEN Throw(p, "Could not generate slug.") /\ UNCHANGED mem
        ELSE /\ mem' = [mem EXCEPT
                    ![p].slug = slug,
                    ![p].console = @
                      \cup (IF slug # candidate THEN {"Slug already exists."} ELSE {})
                      \cup (IF Len(mem[p].areaKeys) > 0 THEN {"area keys"}
                            ELSE {"Could not detect area keys"})]
             /\ Goto(p, "askAreaKey")
  /\ UNCHANGED <<fsVars, now, file0, fnVars>>

\* lines 112-116
AskAreaKey(p) ==
  /\ pc[p] = "askAreaKey"
  /\ Consume(p)
  /\ LET areaKey == Trim(Answer(p))
         known == {mem[p].areaKeys[i] : i \in 1..Len(mem[p].areaKeys)}
     IN IF areaKey = <<>>
        THEN Throw(p, "areaKey is required.") /\ UNCHANGED mem
        ELSE /\ mem' = [mem EXCEPT
                    ![p].areaKey = areaKey,
                    ![p].console = @
                      \cup (IF Len(mem[p].areaKeys) > 0 /\ JsStr(areaKey) \notin known
                            THEN {"Warning: not found in areas.json"} ELSE {})]
             /\ Goto(p, "askAddress")
  /\ UNCHANGED <<fsVars, now, file0, fnVars>>

\* line 118
AskAddress(p) ==
  /\ pc[p] = "askAddress"
  /\ Consume(p)
  /\ mem' = [mem EXCEPT ![p].address = Trim(Answer(p))]
  /\ Goto(p, "askPrice")
  /\ UNCHANGED <<fsVars, now, file0, fnVars>>

\* line 119: (answer).trim() || "$$"
PriceOf(answer) == IF Trim(answer) # <<>> THEN Trim(answer) ELSE <<"$", "$">>

\* lines 119-122
AskPrice(p) ==
  /\ pc[p] = "askPrice"
  /\ Consume(p)
  /\ mem' = [mem EXCEPT
        ![p].price = PriceOf(Answer(p)),
        ![p].console = @ \cup (IF Len(mem[p].cuisineNames) > 0
                               THEN {"cuisine names"}
                               ELSE {"No cuisine names detected"})]
  /\ Goto(p, "askCuisines")
  /\ UNCHANGED <<fsVars, now, file0, fnVars>>

\* lines 123-124 with the record written before the list is checked
AskCuisinesAfterWrite(p) ==
  /\ pc[p] = "askCuisines"
  /\ Consume(p)
  /\ LET cuisines == parseList(Answer(p))
         m == [mem[p] EXCEPT !.cuisines = cuisines]
     IN /\ storeFile' = writeJson(JsArray(Append(m.restaurants, Entry(m))))
        /\ IF Len(cuisines) = 0
           THEN Throw(p, "At least one cuisine is required.") /\ UNCHANGED mem
           ELSE /\ mem' = [mem EXCEPT ![p].cuisines = cuisines]
                /\ Goto(p, "askVibes")
  /\ UNCHANGED <<areasFile, cuisinesFile, placeholder, dirs, photoFiles,
                 now, file0, fnVars>>

\* lines 123-124
AskCuisines(p) ==
  /\ pc[p] = "askCuisines"
  /\ Consume(p)
  /\ LET cuisines == parseList(Answer(p))
     IN IF Len(cuisines) = 0
        THEN Throw(p, "At least one cuisine is required.") /\ UNCHANGED mem
        ELSE /\ mem' = [mem EXCEPT ![p].cuisines = cuisines]
             /\ Goto(p, "askVibes")
  /\ UNCHANGED <<fsVars, now, file0, fnVars>>

\* line 126
AskVibes(p) ==
  /\ pc[p] = "askVibes"
  /\ Consume(p)
  /\ mem' = [mem EXCEPT ![p].vibes = parseList(Answer(p))]
  /\ Goto(p, "askGoodFor")
  /\ UNCHANGED <<fsVars, now, file0, fnVars>>

\* line 127
AskGoodFor(p) ==
  /\ pc[p] = "askGoodFor"
  /\ Consume(p)
  /\ mem' = [mem EXCEPT ![p].goodFor = parseList(Answer(p))]
  /\ Goto(p, "askShortBlurb")
  /\ UNCHANGED <<fsVars, now, file0, fnVars>>

\* line 129
AskShortBlurb(p) ==
  /\ pc[p] = "askShortBlurb"
  /\ Consume(p)
  /\ mem' = [mem EXCEPT ![p].shortBlurb = Trim(Answer(p))]
  /\ Goto(p, "askLongBlurb")
  /\ UNCHANGED <<fsVars, now, file0, fnVars>>

\* line 130
AskLongBlurb(p) ==
  /\ pc[p] = "askLongBlurb"
  /\ Consume(p)
  /\ mem' = [mem EXCEPT ![p].longBlurb = Trim(Answer(p))]
  /\ Goto(p, "askMustTry")
  /\ UNCHANGED <<fsVars, now, file0, fnVars>>

\* line 132
AskMustTry(p) ==
  /\ pc[p] = "askMustTry"
  /\ Consume(p)
  /\ mem' = [mem EXCEPT ![p].mustTry = parseList(Answer(p))]
  /\ Goto(p, "askWebsite")
  /\ UNCHANGED <<fsVars, now, file0, fnVars>>

\* line 134
AskWebsite(p) ==
  /\ pc[p] = "askWebsite"
  /\ Consume(p)
  /\ mem' = [mem EXCEPT ![p].website = Trim(Answer(p))]
  /\ Goto(p, "askMenuUrl")
  /\ UNCHANGED <<fsVars, now, file0, fnVars>>

\* line 135
AskMenuUrl(p) ==
  /\ pc[p] = "askMenuUrl"
  /\ Consume(p)
  /\ mem' = [mem EXCEPT ![p].menuUrl = Trim(Answer(p))]
  /\ Goto(p, "askFeatured")
  /\ UNCHANGED <<fsVars, now, file0, fnVars>>

\* line 137
AskFeatured(p) ==
  /\ pc[p] = "askFeatured"
  /\ Consume(p)
  /\ mem' = [mem EXCEPT ![p].featured = yesNoToBool(Answer(p), FALSE)]
  /\ Goto(p, "ensureDir")
  /\ UNCHANGED <<fsVars, now, file0, fnVars>>

\* lines 140-141; fs.mkdir with recursive: true accepts an existing directory
EnsureDir(p) ==
  /\ pc[p] = "ensureDir"
  /\ dirs' = dirs \cup {mem[p].slug}
  /\ Goto(p, "placePhoto")
  /\ UNCHANGED <<storeFile, areasFile, cuisinesFile, placeholder, photoFiles,
                 now, stdin, mem, file0, fnVars>>

\* line 141 when fs.mkdir rejects (no permission, read-only file system)
EnsureDirFails(p) ==
  /\ pc[p] = "ensureDir"
  /\ Throw(p, "mkdir")
  /\ UNCHANGED <<fsVars, now, stdin, mem, file0, fnVars>>

\* lines 143-156 and copyPlaceholderIfExists, lines 63-71
PlacePhoto(p) ==
  /\ pc[p] = "placePhoto"
  /\ IF mem[p].slug \in photoFiles
     THEN UNCHANGED <<photoFiles, mem>>
     ELSE IF placeholder
     THEN /\ photoFiles' = photoFiles \cup {mem[p].slug}
          /\ mem' = [mem EXCEPT ![p].console = @ \cup {"Created from placeholder.jpg"}]
     ELSE /\ UNCHANGED photoFiles
          /\ mem' = [mem EXCEPT ![p].console = @ \cup {"placeholder.jpg not found"}]
  /\ Goto(p, "commit")
  /\ UNCHANGED <<storeFile, areasFile, cuisinesFile, placeholder, dirs,
                 now, stdin, file0, fnVars>>

\* lines 158-191 with unshift in place of push at line 176
CommitUnshift(p) ==
  /\ pc[p] = "commit"
  /\ LET pushed == <<Entry(mem[p])>> \o mem[p].restaurants
     IN /\ mem' = [mem EXCEPT ![p].restaurants = pushed]
        /\ storeFile' = writeJson(JsArray(pushed))
  /\ pc' = [pc EXCEPT ![p] = "done"]
  /\ exitCode' = [exitCode EXCEPT ![p] = 0]
  /\ UNCHANGED <<areasFile, cuisinesFile, placeholder, dirs, photoFiles,
                 now, stdin, err, file0, fnVars>>

\* lines 158-191 with the store read again before the push of line 176
CommitMerge(p) ==
  /\ pc[p] = "commit"
  /\ LET pushed == Append(readJson(storeFile).items, Entry(mem[p]))
     IN /\ mem' = [mem EXCEPT ![p].restaurants = pushed]
        /\ storeFile' = writeJson(JsArray(pushed))
  /\ pc' = [pc EXCEPT ![p] = "done"]
  /\ exitCode' = [exitCode EXCEPT ![p] = 0]
  /\ UNCHANGED <<areasFile, cuisinesFile, placeholder, dirs, photoFiles,
                 now, stdin, err, file0, fnVars>>

\* lines 158-191, after which main returns and the process exits with 0
Commit(p) ==
  /\ pc[p] = "commit"
  /\ LET pushed == Append(mem[p].restaurants, Entry(mem[p]))
     IN /\ mem' = [mem EXCEPT ![p].restaurants = pushed,
                              ![p].console = @ \cup {"Added restaurant"}]
        /\ storeFile' = writeJson(JsArray(pushed))
  /\ pc' = [pc EXCEPT ![p] = "done"]
  /\ exitCode' = [exitCode EXCEPT ![p] = 0]
  /\ UNCHANGED <<areasFile, cuisinesFile, placeholder, dirs, photoFiles,
                 now, stdin, err, file0, fnVars>>

\* lines 158-177 when fs.writeFile rejects before it has written anything
\* (the file cannot be opened for writing)
CommitFails(p) ==
  /\ pc[p] = "commit"
  /\ mem' = [mem EXCEPT ![p].restaurants = Append(@, Entry(mem[p]))]
  /\ Throw(p, "writeFile")
  /\ UNCHANGED <<fsVars, now, stdin, file0, fnVars>>

\* the operator interrupts the run: the process ends at once, neither the
\* finally block nor the catch of lines 194-197 runs
Interrupt(p) ==
  /\ Running(p)
  /\ pc' = [pc EXCEPT ![p] = "killed"]
  /\ exitCode' = [exitCode EXCEPT ![p] = 130]
  /\ UNCHANGED <<fsVars, now, stdin, mem, err, file0, fnVars>>

\* time passes
Tick ==
  /\ now < MaxNow
  /\ now' = now + 1
  /\ UNCHANGED <<fsVars, pc, stdin, mem, exitCode, err, file0, fnVars>>

Step(p) ==
  \/ ReadStore(p)
  \/ ReadAreas(p)
  \/ ReadCuisines(p)
  \/ AskName(p)
  \/ AskSlug(p)
  \/ AskAreaKey(p)
  \/ AskAddress(p)
  \/ AskPrice(p)
  \/ AskCuisines(p)
  \/ AskVibes(p)
  \/ AskGoodFor(p)
  \/ AskShortBlurb(p)
  \/ AskLongBlurb(p)
  \/ AskMustTry(p)
  \/ AskWebsite(p)
  \/ AskMenuUrl(p)
  \/ AskFeatured(p)
  \/ EnsureDir(p)
  \/ EnsureDirFails(p)
  \/ PlacePhoto(p)
  \/ Commit(p)
  \/ CommitFails(p)
  \/ Interrupt(p)

Next == (\E p \in Procs : Step(p)) \/ Tick

\* one run of the tool
Spec == Init /\ [][Next]_vars

\* two runs of the tool against the same files, their steps interleaved
SpecTwo == InitTwo /\ [][Next]_vars

(***************************************************************************)
(* slugify and extractAreaKeys applied to bounded inputs.                  *)
(***************************************************************************)
IdleRun ==
  /\ storeFile = GarbageFile /\ areasFile = AbsentFile /\ cuisinesFile = AbsentFile
  /\ placeholder = FALSE /\ dirs = {} /\ photoFiles = {} /\ file0 = storeFile
  /\ now = 0
  /\ pc = [p \in Procs |-> "idle"]
  /\ stdin = [p \in Procs |-> <<>>]
  /\ mem = [p \in Procs |-> InitMem]
  /\ exitCode = [p \in Procs |-> -1]
  /\ err = [p \in Procs |-> "none"]

SlugAlphabet ==
  {"a", "A", "1", " ", "-", "'", "&", "U+00E9", "U+210B", "U+2019"}

Texts(n) == UNION {[1..k -> SlugAlphabet] : k \in 0..n}

InitSlug ==
  /\ IdleRun
  /\ txt \in Texts(MaxLen)
  /\ once = <<>> /\ twice = <<>>
  /\ table = JsNotArray /\ keys = <<>>
  /\ hpc = "start"

SlugOnce ==
  /\ hpc = "start"
  /\ once' = slugify(txt)
  /\ hpc' = "once"
  /\ UNCHANGED <<fsVars, runVars, txt, twice, table, keys>>

SlugTwice ==
  /\ hpc = "once"
  /\ twice' = slugify(once)
  /\ hpc' = "twice"
  /\ UNCHANGED <<fsVars, runVars, txt, once, table, keys>>

NextSlug == SlugOnce \/ SlugTwice

SpecSlug == InitSlug /\ [][NextSlug]_vars

KeyValues == {JsUndef, JsNull, JsStr(<<>>), JsStr(<<"k">>)}
IdValues == {JsUndef, JsStr(<<>>), JsStr(<<"i">>)}
SlugValues == {JsUndef, JsStr(<<"s">>)}

AreaEntries ==
  {JsStrEntry(<<"f", "i">>), JsNullEntry}
  \cup {JsObj(k, i, sl, JsStr(<<"F">>)) :
          k \in KeyValues, i \in IdValues, sl \in SlugValues}

AreaTables ==
  {JsNotArray} \cup {JsArray(q) : q \in UNION {[1..k -> AreaEntries] : k \in 0..MaxTable}}

InitAreas ==
  /\ IdleRun
  /\ txt = <<>> /\ once = <<>> /\ twice = <<>>
  /\ table \in AreaTables
  /\ keys = <<>>
  /\ hpc = "start"

ExtractKeys ==
  /\ hpc = "start"
  /\ keys' = extractAreaKeys(table)
  /\ hpc' = "extracted"
  /\ UNCHANGED <<fsVars, runVars, txt, once, twice, table>>

NextAreas == ExtractKeys

SpecAreas == InitAreas /\ [][NextAreas]_vars

(***************************************************************************)
(* Properties.                                                             *)
(***************************************************************************)
Items0 == file0.val.items
StoreItems == storeFile.val.items
Last(q) == q[Len(q)]
Dirs0 == ExistingSlugs(Items0)

\* C1: the slug of the record a successful run appends differs from the
\* slug of every record already in the store, also when the candidate
\* collided and was given the time suffix.
C1_NewSlugIsUnique ==
  pc[1] = "done" => mem[1].slug \notin ExistingSlugs(mem[1].loaded)

RequiredMessages ==
  {"Name is required.", "Could not generate slug.", "areaKey is required.",
   "At least one cuisine is required."}

FatalMessages == RequiredMessages \cup {"restaurants.json must be a JSON array."}

\* C2: a run that ends in one of the fatal conditions (store not an array,
\* empty name, empty slug, empty areaKey, empty cuisines) exits with a
\* non-zero status, has not pushed or written anything, and leaves the
\* store file exactly as it was.
C2_FatalLeavesStore ==
  (pc[1] = "failed" /\ err[1] \in FatalMessages)
    => /\ exitCode[1] # 0 /\ exitCode[1] # -1
       /\ storeFile = file0
       /\ mem[1].restaurants = mem[1].loaded

C2_Witness ==
  /\ pc[1] = "failed"
  /\ err[1] = "At least one cuisine is required."
  /\ Len(Items0) > 0
  /\ file0.fmt = "other"

\* C3: after a successful run the store is the store read at the start
\* with exactly one record added at the end; every earlier item is where
\* it was and as it was.
C3_AppendOnly ==
  pc[1] = "done"
    => /\ storeFile.kind = "json" /\ storeFile.val.t = "arr"
       /\ Len(StoreItems) = Len(Items0) + 1
       /\ SubSeq(StoreItems, 1, Len(Items0)) = Items0
       /\ Last(StoreItems) = Entry(mem[1])

C3_Witness ==
  /\ pc[1] = "done"
  /\ Len(Items0) > 0
  /\ "Slug already exists." \in mem[1].console

\* C4: the record a run appends has a non-empty name, slug and areaKey and
\* a cuisines list with at least one item, none of them empty; a run that
\* found one of them empty has failed and the store has no more items
\* than before.
C4_RequiredFields ==
  /\ pc[1] = "done"
       => LET r == Last(StoreItems).f
          IN /\ r.name # <<>> /\ r.slug # <<>> /\ r.areaKey # <<>>
             /\ Len(r.cuisines) >= 1
             /\ \A i \in 1..Len(r.cuisines) : r.cuisines[i] # <<>>
  /\ (pc[1] = "failed" /\ err[1] \in RequiredMessages)
       => /\ exitCode[1] = 1
          /\ Len(StoreItems) = Len(Items0)

C4_Witness ==
  /\ pc[1] = "done"
  /\ Len(Last(StoreItems).f.cuisines) = 2
  /\ Last(StoreItems).f.name = <<"A">>

\* C5: when two runs have both read the same store and both exited with
\* success, the store holds the store they read plus the record of one of
\* them only: the last writer's array replaces the first writer's.
C5_LastWriterWins ==
  (pc[1] = "done" /\ pc[2] = "done" /\ mem[1].loaded = mem[2].loaded)
    => /\ exitCode[1] = 0 /\ exitCode[2] = 0
       /\ err[1] = "none" /\ err[2] = "none"
       /\ \E p \in Procs : StoreItems = Append(mem[p].loaded, Entry(mem[p]))

C5_LostAppend ==
  /\ pc[1] = "done" /\ pc[2] = "done"
  /\ exitCode[1] = 0 /\ exitCode[2] = 0
  /\ StoreItems = Append(Items0, Entry(mem[2]))
  /\ \A i \in 1..Len(StoreItems) : StoreItems[i] # Entry(mem[1])

\* the identifier the claim C6 gives for one entry: the string itself, or
\* the object's key, else id, else slug
ClaimedKey(a) ==
  IF a.t = "str" THEN JsStr(a.s)
  ELSE Coalesce(Prop(a, "key"), Coalesce(Prop(a, "id"),
         Coalesce(Prop(a, "slug"), JsNull)))

\* C6 as stated: the loader returns one identifier for each resolvable
\* entry of both table shapes, strings included.
C6_Claimed ==
  hpc = "extracted"
    => keys = (IF table.t = "arr"
               THEN SelectSeq([i \in 1..Len(table.items) |-> ClaimedKey(table.items[i])],
                              Truthy)
               ELSE <<>>)

\* whether extractAreaKeys keeps the entry: it is an object and the first
\* of key, id, slug that is a string is not empty
Resolves(a) ==
  /\ a.t = "obj"
  /\ IF a.key.t = "str" THEN a.key.s # <<>>
     ELSE IF a.id.t = "str" THEN a.id.s # <<>>
     ELSE a.slug.t = "str" /\ a.slug.s # <<>>

Resolved(a) ==
  IF a.key.t = "str" THEN a.key ELSE IF a.id.t = "str" THEN a.id ELSE a.slug

RECURSIVE AmendedKeys(_)
AmendedKeys(q) ==
  IF q = <<>> THEN <<>>
  ELSE (IF Resolves(Head(q)) THEN <<Resolved(Head(q))>> ELSE <<>>)
       \o AmendedKeys(Tail(q))

\* C6 amended: for a list the loader returns, in table order, for each
\* object the first of key, id, slug that is neither missing nor null, when
\* that value is a non-empty string; strings, nulls and all other entries
\* are dropped, and a table that is not a list gives the empty sequence.
C6_Amended ==
  hpc = "extracted"
    => keys = (IF table.t = "arr" THEN AmendedKeys(table.items) ELSE <<>>)

C6_Witness ==
  /\ hpc = "extracted"
  /\ table.t = "arr" /\ Len(table.items) = 2
  /\ table.items[1].t = "str"
  /\ table.items[2].t = "obj"
  /\ keys = <<JsStr(<<"i">>)>>

\* C7: an absent or malformed area or cuisine table is never fatal: when
\* the store itself is a readable array, the run does not fail reading a
\* table.
C7_TablesNeverFatal ==
  (~readJsonThrows(file0) /\ file0.val.t = "arr" /\ pc[1] = "failed")
    => err[1] # "readJson"

\* C8: the price of the record a run appends is one of $, $$, $$$.
C8_PriceInTiers ==
  pc[1] = "done" => Last(StoreItems).f.price \in PriceTiers

WellFormedSlug(s) ==
  /\ \A i \in 1..Len(s) : s[i] \in SlugChars \cup {"-"}
  /\ s # <<>> => (s[1] # "-" /\ s[Len(s)] # "-")
  /\ \A i \in 1..(Len(s) - 1) : ~(s[i] = "-" /\ s[i + 1] = "-")

\* C9: slugify is idempotent, and what it returns is made of groups of
\* [a-z0-9] joined by single hyphens, with no hyphen at either end.
C9_Idempotent ==
  /\ hpc \in {"once", "twice"} => WellFormedSlug(once)
  /\ hpc = "twice" => twice = once

C9_Witness ==
  /\ hpc = "twice"
  /\ txt = <<"-", "&", "U+00E9">>
  /\ once = <<"a", "n", "d", "-", "e">>

\* C10 as stated: in a run that was interrupted or that failed, nothing
\* persistent has changed: the store is untouched and no photo folder or
\* placeholder copy has been made.
C10_Claimed ==
  pc[1] \in {"failed", "killed"}
    => /\ storeFile = file0
       /\ dirs = Dirs0
       /\ photoFiles = Dirs0

\* C10 amended: the store is changed by the final write only, so a run
\* that has not completed it leaves the store untouched; the photo folder
\* and the placeholder copy are made before that write, but only once
\* every prompt has been answered and every check has passed.
C10_Amended ==
  /\ pc[1] # "done" => storeFile = file0
  /\ (dirs # Dirs0 \/ photoFiles # Dirs0)
       => /\ stdin[1] = <<>>
          /\ mem[1].name # <<>> /\ mem[1].areaKey # <<>> /\ mem[1].cuisines # <<>>
          /\ mem[1].slug \in dirs
          /\ pc[1] \in {"placePhoto", "commit", "done", "failed", "killed"}

C10_Witness ==
  /\ pc[1] = "killed"
  /\ storeFile = file0
  /\ mem[1].slug \in dirs \ Dirs0
  /\ mem[1].slug \in photoFiles
  /\ mem[1].slug \notin ExistingSlugs(StoreItems)

====
